---- MODULE Spec2Model ----
(***************************************************************************)
(* Model of the two-stage audio-library utility:                           *)
(*   scan.py    - extract metadata, evaluate CDJ compatibility, write the  *)
(*                text report audio_metadata_report.txt                    *)
(*   convert.py - parse the report, plan and run one transcode per file    *)
(*                flagged incompatible                                     *)
(*                                                                         *)
(* Text is modelled at character level: a Python str is a sequence of      *)
(* one-character strings, so that prefixes, slice offsets, strip(),        *)
(* split(), int() and float() do what the code does.                       *)
(* A bitrate (a float rounded to two decimals by scan.py) is held as an    *)
(* integer number of hundredths of a kbps.                                 *)
(***************************************************************************)
EXTENDS Integers, Sequences, FiniteSets, TLC

(***************************************************************************)
(* Bounds of the model                                                     *)
(***************************************************************************)
\* number of files under the scanned root
MaxFiles == 2
\* number of lines of an arbitrary report text handed to the parser
MaxLines == 3

(***************************************************************************)
(* Python values                                                           *)
(***************************************************************************)
\* Python's None; every number of the model is >= 0
None == -1
\* truthiness of an optional number: None and 0 are falsy
Truthy(x) == x # None /\ x # 0
\* x in list
InList(x, s) == \E i \in DOMAIN s : s[i] = x
\* key in dict
Has(m, k) == k \in DOMAIN m
\* dict[k] = v
Put(m, k, v) == (k :> v) @@ m
\* the exception raised by dict[k] on a missing key
KeyError == [raised |-> "KeyError"]
\* the exception raised by x / 0
ZeroDivisionError == [raised |-> "ZeroDivisionError"]
\* hundredths of a kbps in n kbps
Kbps(n) == n * 100

(***************************************************************************)
(* Python str operations on sequences of characters                        *)
(***************************************************************************)
Digits == <<"0","1","2","3","4","5","6","7","8","9">>
IsDigit(c) == InList(c, Digits)
DigitVal(c) == (CHOOSE i \in DOMAIN Digits : Digits[i] = c) - 1
\* str.isspace for the characters of the model
IsSpace(c) == c \in {" ", "\t", "\n"}

\* s.startswith(p)
startswith(s, p) == Len(s) >= Len(p) /\ SubSeq(s, 1, Len(p)) = p
\* s[k:]
slice_from(s, k) == SubSeq(s, k + 1, Len(s))

\* s.lstrip(chars): s from its first character outside chars
lstrip_chars(s, chars) ==
    LET kept == {i \in DOMAIN s : s[i] \notin chars}
    IN  IF kept = {} THEN <<>>
        ELSE SubSeq(s, CHOOSE i \in kept : \A j \in kept : i <= j, Len(s))

\* s.rstrip(): s up to its last character that is not whitespace
rstrip_space(s) ==
    LET kept == {i \in DOMAIN s : ~IsSpace(s[i])}
    IN  IF kept = {} THEN <<>>
        ELSE SubSeq(s, 1, CHOOSE i \in kept : \A j \in kept : j <= i)

\* s.strip()
strip(s) == rstrip_space(lstrip_chars(s, {" ", "\t", "\n"}))

\* the longest prefix of s without whitespace
take_word(s) ==
    LET spaces == {i \in DOMAIN s : IsSpace(s[i])}
    IN  IF spaces = {} THEN s
        ELSE SubSeq(s, 1, (CHOOSE i \in spaces : \A j \in spaces : i <= j) - 1)

\* s.split(): the list of whitespace-separated words
RECURSIVE split(_)
split(s) ==
    LET t == lstrip_chars(s, {" ", "\t", "\n"})
        w == take_word(t)
    IN  IF t = <<>> THEN <<>> ELSE <<w>> \o split(slice_from(t, Len(w)))

RECURSIVE split_lines(_)
\* s.split('\n')
split_lines(s) ==
    LET breaks == {i \in DOMAIN s : s[i] = "\n"}
        head == IF breaks = {} THEN s
                 ELSE SubSeq(s, 1, (CHOOSE i \in breaks : \A j \in breaks : i <= j) - 1)
    IN  IF Len(head) = Len(s) THEN <<head>>
        ELSE <<head>> \o split_lines(slice_from(s, Len(head) + 1))

RECURSIVE DigitsValue(_)
DigitsValue(s) ==
    IF s = <<>> THEN 0 ELSE DigitsValue(SubSeq(s, 1, Len(s) - 1)) * 10 + DigitVal(s[Len(s)])

AllDigits(s) == \A i \in DOMAIN s : IsDigit(s[i])

\* the exceptions int() and float() raise on a malformed literal, list[0] on
\* an empty list
ValueError == [raised |-> "ValueError"]
IndexError == [raised |-> "IndexError"]

\* an exception is a record with the field raised; a value that may be one
\* is returned as [value |-> v]
Raised(r) == "raised" \in DOMAIN r

\* int(s), for text without sign or underscore: surrounding whitespace is
\* ignored, one or more decimal digits are required
int(s) ==
    LET t == strip(s)
    IN  IF t # <<>> /\ AllDigits(t) THEN [value |-> DigitsValue(t)] ELSE ValueError

\* index of the first "." of s, or 0
DotAt(s) == IF InList(".", s) THEN CHOOSE i \in DOMAIN s : s[i] = "." /\ \A j \in 1..(i - 1) : s[j] # "." ELSE 0

\* float(s), for text without sign, exponent, inf or nan and with at most two
\* decimals: digits, optionally "." and digits, at least one digit in all;
\* the value is returned in hundredths
float(s) ==
    LET t == strip(s)
        d == DotAt(t)
        ip == IF d = 0 THEN t ELSE SubSeq(t, 1, d - 1)
        fp == IF d = 0 THEN <<>> ELSE SubSeq(t, d + 1, Len(t))
        f2 == SubSeq(fp \o <<"0","0">>, 1, 2)
    IN  IF AllDigits(ip) /\ AllDigits(fp) /\ Len(ip) + Len(fp) > 0 /\ Len(fp) <= 2
        THEN [value |-> DigitsValue(ip) * 100 + DigitsValue(f2)]
        ELSE ValueError

RECURSIVE str_int(_)
\* str(n) for an int n >= 0
str_int(n) ==
    IF n < 10 THEN <<Digits[n + 1]>> ELSE str_int(n \div 10) \o <<Digits[(n % 10) + 1]>>

S_None == <<"N","o","n","e">>
\* str(x) for an optional int
str_opt_int(x) == IF x = None THEN S_None ELSE str_int(x)

\* str(f) for a float f >= 0 with at most two decimals, given in hundredths:
\* repr keeps at least one decimal and drops a trailing zero
str_float(c) ==
    LET ip == str_int(c \div 100)
        fr == c % 100
    IN  ip \o <<".">> \o
        (IF fr % 10 = 0 THEN <<Digits[(fr \div 10) + 1]>>
         ELSE <<Digits[(fr \div 10) + 1], Digits[(fr % 10) + 1]>>)

(***************************************************************************)
(* Format names                                                            *)
(***************************************************************************)
S_wav == <<"w","a","v">>
S_wave == <<"w","a","v","e">>
S_mp3 == <<"m","p","3">>
S_aif == <<"a","i","f">>
S_aiff == <<"a","i","f","f">>
S_flac == <<"f","l","a","c">>
S_m4a == <<"m","4","a">>
S_ogg == <<"o","g","g">>

(***************************************************************************)
(* scan.py: the rule table and the compatibility evaluator                 *)
(***************************************************************************)
\* the keys of CDJ_REQUIREMENTS
CDJ_KEYS == {S_wav, S_mp3, S_aiff, S_flac, S_m4a}

\* CDJ_REQUIREMENTS[k] of scan.py; a list or range that is None is <<>>
\* (both are falsy), an absent bound of a range is None
CDJ_REQUIREMENTS(k) ==
    CASE k = S_wav  -> [sample_rates |-> <<44100, 48000>>, bit_depths |-> <<16, 24>>,
                        channels |-> <<2>>, bitrate |-> <<>>]
      [] k = S_mp3  -> [sample_rates |-> <<44100>>, bit_depths |-> <<>>,
                        channels |-> <<2>>, bitrate |-> <<32, 320>>]
      [] k = S_aiff -> [sample_rates |-> <<44100, 48000>>, bit_depths |-> <<16, 24>>,
                        channels |-> <<2>>, bitrate |-> <<>>]
      [] k = S_flac -> [sample_rates |-> <<44100, 48000>>, bit_depths |-> <<16, 24>>,
                        channels |-> <<2>>, bitrate |-> <<>>]
      [] k = S_m4a  -> [sample_rates |-> <<44100, 48000>>, bit_depths |-> <<>>,
                        channels |-> <<2>>, bitrate |-> <<256, None>>]

\* value not in allowed, for a rule that has an allowed list (lines 71, 75, 79)
NotAllowed_SkipsUnknown(value, allowed) ==
    allowed # <<>> /\ Truthy(value) /\ ~InList(value, allowed)

NotAllowed(value, allowed) == allowed # <<>> /\ ~InList(value, allowed)

BitrateIssues_MaxExclusive(reqs, metadata) ==
    IF reqs.bitrate # <<>> /\ Truthy(metadata.bitrate)
    THEN LET min_bitrate == reqs.bitrate[1]
             max_bitrate == reqs.bitrate[2]
         IN  (IF Truthy(min_bitrate) /\ metadata.bitrate < Kbps(min_bitrate)
              THEN <<"bitrate_low">> ELSE <<>>)
             \o
             (IF Truthy(max_bitrate) /\ metadata.bitrate >= Kbps(max_bitrate)
              THEN <<"bitrate_high">> ELSE <<>>)
    ELSE <<>>

\* the bitrate check of check_compatibility (lines 82-89); an issue is held
\* as the name of the constraint it reports
BitrateIssues(reqs, metadata) ==
    IF reqs.bitrate # <<>> /\ Truthy(metadata.bitrate)
    THEN LET min_bitrate == reqs.bitrate[1]
             max_bitrate == reqs.bitrate[2]
         IN  (IF Truthy(min_bitrate) /\ metadata.bitrate < Kbps(min_bitrate)
              THEN <<"bitrate_low">> ELSE <<>>)
             \o
             (IF Truthy(max_bitrate) /\ metadata.bitrate > Kbps(max_bitrate)
              THEN <<"bitrate_high">> ELSE <<>>)
    ELSE <<>>

\* check_compatibility(metadata): <<is_compatible, issues>>
check_compatibility(metadata) ==
    LET file_type == lstrip_chars(metadata.file_type, {"."})
    IN  IF file_type \notin CDJ_KEYS THEN <<FALSE, <<"format">>>>
        ELSE LET reqs == CDJ_REQUIREMENTS(file_type)
                 issues ==
                     (IF NotAllowed(metadata.sample_rate, reqs.sample_rates)
                      THEN <<"sample_rate">> ELSE <<>>)
                     \o
                     (IF NotAllowed(metadata.bit_depth, reqs.bit_depths)
                      THEN <<"bit_depth">> ELSE <<>>)
                     \o
                     (IF NotAllowed(metadata.channels, reqs.channels)
                      THEN <<"channels">> ELSE <<>>)
                     \o
                     BitrateIssues(reqs, metadata)
             IN  <<Len(issues) = 0, issues>>

(***************************************************************************)
(* convert.py: the rule table and the conversion-parameter planner         *)
(***************************************************************************)
\* CDJ_REQUIREMENTS[k] of convert.py
CONVERT_CDJ_REQUIREMENTS(k) ==
    CASE k = S_wav  -> [sample_rates |-> <<44100, 48000>>, bit_depths |-> <<16, 24>>,
                        channels |-> <<2>>, bitrate |-> <<>>]
      [] k = S_mp3  -> [sample_rates |-> <<44100>>, bit_depths |-> <<>>,
                        channels |-> <<2>>, bitrate |-> <<32, 320>>]
      [] k = S_aiff -> [sample_rates |-> <<44100, 48000>>, bit_depths |-> <<16, 24>>,
                        channels |-> <<2>>, bitrate |-> <<>>]
      [] k = S_flac -> [sample_rates |-> <<44100, 48000>>, bit_depths |-> <<16, 24>>,
                        channels |-> <<2>>, bitrate |-> <<>>]
      [] k = S_m4a  -> [sample_rates |-> <<44100, 48000>>, bit_depths |-> <<>>,
                        channels |-> <<2>>, bitrate |-> <<256, None>>]

\* format_map.get(file_type, 'wav')
format_map_get(file_type) ==
    CASE file_type = S_aif  -> S_aiff
      [] file_type = S_wav  -> S_wav
      [] file_type = S_mp3  -> S_mp3
      [] file_type = S_flac -> S_flac
      [] file_type = S_m4a  -> S_m4a
      [] OTHER -> S_wav

\* the per-format branch of get_conversion_params: the target format and the
\* codec parameters, or the KeyError of a key the record lacks
CodecPlan(metadata, file_type, cdj_key) ==
    IF file_type \in {S_wav, S_aif, S_aiff} THEN
        IF ~Has(metadata, "bit_depth") THEN KeyError
        ELSE [target_format |-> IF file_type = S_wav THEN S_wav ELSE S_aiff,
              params |-> IF ~InList(metadata.bit_depth, CONVERT_CDJ_REQUIREMENTS(cdj_key).bit_depths)
                         THEN <<"-acodec", "pcm_s24le">> ELSE <<>>]
    ELSE IF file_type = S_flac THEN
        IF ~Has(metadata, "bit_depth") THEN KeyError
        ELSE [target_format |-> S_flac,
              params |-> IF ~InList(metadata.bit_depth, CONVERT_CDJ_REQUIREMENTS(cdj_key).bit_depths)
                         THEN <<"-acodec", "flac">> ELSE <<>>]
    ELSE IF file_type = S_mp3 THEN
        IF ~Has(metadata, "bitrate") THEN KeyError
        ELSE [target_format |-> S_mp3,
              params |-> IF Truthy(metadata.bitrate) /\ metadata.bitrate < Kbps(320)
                         THEN <<"-acodec", "libmp3lame", "-b:a", "320k">> ELSE <<>>]
    ELSE IF file_type = S_m4a THEN
        IF ~Has(metadata, "bitrate") THEN KeyError
        ELSE [target_format |-> S_m4a,
              params |-> IF Truthy(metadata.bitrate) /\ metadata.bitrate < Kbps(256)
                         THEN <<"-acodec", "aac", "-b:a", "256k">> ELSE <<>>]
    ELSE [target_format |-> S_wav, params |-> <<"-acodec", "pcm_s24le">>]

\* get_conversion_params(metadata): [target_format, params], or KeyError
get_conversion_params(metadata) ==
    IF ~Has(metadata, "file_type") THEN KeyError
    ELSE LET file_type == lstrip_chars(metadata.file_type, {"."})
             cdj_key == format_map_get(file_type)
             codec == CodecPlan(metadata, file_type, cdj_key)
         IN  IF codec = KeyError THEN KeyError
             ELSE IF ~Has(metadata, "sample_rate") THEN KeyError
             ELSE IF ~Has(metadata, "channels") THEN KeyError
             ELSE [target_format |-> codec.target_format,
                   params |-> codec.params
                       \o (IF ~InList(metadata.sample_rate, CONVERT_CDJ_REQUIREMENTS(cdj_key).sample_rates)
                           THEN <<"-ar", "44100">> ELSE <<>>)
                       \o (IF metadata.channels # 2 THEN <<"-ac", "2">> ELSE <<>>)]

(***************************************************************************)
(* scan.py: the extensions the scan accepts                                *)
(***************************************************************************)
\* audio_extensions, line 195
audio_extensions ==
    {<<".">> \o e : e \in {S_mp3, S_wav, S_wave, S_flac, S_aif, S_aiff, S_m4a, S_ogg}}

(***************************************************************************)
(* State                                                                   *)
(***************************************************************************)
VARIABLES
    \* the file system and the tools
    tree,                 \* the files under the root, in rglob order
    removed,              \* indices of tree removed after the scan
    report_file,          \* audio_metadata_report.txt: [exists, lines]
    \* the run of scan.py then convert.py
    pc,                   \* position in the two stages
    si,                   \* generate_report: index of the next file of rglob
    audio_files,          \* generate_report: the records appended so far
    error_files,          \* generate_report: the paths that failed
    format_stats,         \* generate_report: counts per file type
    sample_rate_stats,    \* generate_report: counts per sample rate
    bit_depth_stats,      \* generate_report: counts per bit depth
    channel_stats,        \* generate_report: counts per channel count
    compatibility_stats,  \* generate_report: [compatible, incompatible]
    parsed_files,         \* process_directory: audio_files, parsed from the report
    incompatible_files,   \* process_directory: the records to convert
    ci,                   \* process_directory: index of the next record
    outcomes,             \* what happened to each record of incompatible_files
    ffmpeg_calls,         \* the transcoder invocations made, in order
    converted             \* the output files present in converted/

VARIABLES
    \* the evaluator and the planner applied to one record
    fpc,          \* "idle", "record", "evaluated", "planned"
    metadata,     \* the record under evaluation
    verdict,      \* check_compatibility(metadata): <<is_compatible, issues>>
    plan          \* get_conversion_params(metadata)

fs_vars == <<tree, removed, report_file>>
scan_vars == <<si, audio_files, error_files, format_stats, sample_rate_stats,
               bit_depth_stats, channel_stats, compatibility_stats>>
convert_vars == <<parsed_files, incompatible_files, ci, outcomes, ffmpeg_calls, converted>>
fn_vars == <<fpc, metadata, verdict, plan>>

vars == <<fs_vars, pc, scan_vars, convert_vars, fn_vars>>

\* no plan computed yet
NoPlan == [raised |-> "nothing"]

\* the report file before scan.py has written it
NoFile == [exists |-> FALSE, lines |-> <<>>]

(***************************************************************************)
(* The files under the root                                                *)
(***************************************************************************)
\* AUDIO_DIR, the root both stages are configured with
AUDIO_DIR == <<"/","p","a","t","h","/","t","o","/","y","o","u","r","/","a","u","d","i","o","/","d","i","r","e","c","t","o","r","y">>
\* the subdirectory of the root
SubDir == <<"s","u","b">>
\* datetime.now().strftime('%Y-%m-%d %H:%M:%S') at the time of the scan
Now == <<"2","0","2","6","-","1","1","-","0","5"," ","0","3",":","5","6",":","4","7">>

\* A file: its directory relative to the root (<<>> is the root itself), its
\* name, its size in hundredths of a MB, the mutagen class MutagenFile returns
\* for it ("none": unreadable) and the attributes of audio.info (None: the
\* attribute is missing); bitrate is info.bitrate / 1000 rounded to two
\* decimals, in hundredths.
AudioFile(dir, name, size, container, sample_rate, bit_depth, channels, bitrate) ==
    [dir |-> dir, name |-> name, size |-> size, container |-> container,
     sample_rate |-> sample_rate, bit_depth |-> bit_depth, channels |-> channels,
     bitrate |-> bitrate]

\* the files a root may hold
Files == {
    AudioFile(<<>>, <<"a",".","w","a","v">>, 1234, "WAVE", 44100, 16, 2, None),
    AudioFile(<<>>, <<"b",".","w","a","v">>, 250, "WAVE", 22050, 8, 1, None),
    AudioFile(<<>>, <<"c",".","m","p","3">>, 400, "MP3", 22050, None, 1, 12800),
    AudioFile(<<>>, <<"d",".","m","p","3">>, 310, "MP3", 48000, None, 2, None),
    AudioFile(SubDir, <<"e",".","f","l","a","c">>, 2000, "FLAC", None, 24, None, None),
    AudioFile(<<>>, <<" ","f",".","m","4","a">>, 505, "MP4", 44100, 16, 2, 12850),
    AudioFile(<<>>, <<"g",".","o","g","g">>, 0, "none", None, None, None, None),
    AudioFile(<<>>, <<"h",".","t","x","t">>, 1, "none", None, None, None, None),
    AudioFile(SubDir, <<"b",".","w","a","v">>, 700, "WAVE", 48000, 24, 2, None),
    AudioFile(<<>>, <<"i",".","a","i","f">>, 900, "AIFF", 44100, 16, 2, None),
    AudioFile(<<>>, <<"j",".","m","p","3">>, 860, "MP3", 44100, None, 2, 32000),
    AudioFile(<<>>, <<"k",".","m","4","a">>, 640, "MP4", 44100, 16, 2, 0),
    AudioFile(<<>>, <<"l",".","o","g","g">>, 330, "OggVorbis", 44100, None, 2, 16000)
}

\* the sequences of at most n distinct files
RECURSIVE Trees(_)
Trees(n) ==
    IF n = 0 THEN {<<>>}
    ELSE LET shorter == Trees(n - 1)
         IN  shorter \cup
             {Append(t, f) : t \in {u \in shorter : Len(u) = n - 1},
                             f \in Files}

\* no path occurs twice in a directory tree
Distinct(t) == \A i, j \in DOMAIN t : i # j => t[i] # t[j]

\* file_path.name and str(file_path)
PathOf(file) ==
    AUDIO_DIR \o <<"/">> \o (IF file.dir = <<>> THEN <<>> ELSE file.dir \o <<"/">>) \o file.name

\* index of the last "." of s, or 0
LastDot(s) ==
    IF InList(".", s)
    THEN CHOOSE i \in DOMAIN s : s[i] = "." /\ \A j \in (i + 1)..Len(s) : s[j] # "."
    ELSE 0

\* Path(name).suffix.lower() and Path(name).stem, for a lower-case name that
\* does not start with its only "."
suffix(name) == IF LastDot(name) <= 1 THEN <<>> ELSE slice_from(name, LastDot(name) - 1)
stem(name) == IF LastDot(name) <= 1 THEN name ELSE SubSeq(name, 1, LastDot(name) - 1)

(***************************************************************************)
(* scan.py: metadata extraction                                            *)
(***************************************************************************)
\* get_format_specific_info(audio, file_type): the bitrate and the format label
\* (<<>>: None) when the container matches the extension
get_format_specific_info(file, file_type) ==
    IF file_type = <<".">> \o S_mp3 /\ file.container = "MP3"
        THEN [bitrate |-> file.bitrate, format |-> <<"M","P","3">>]
    ELSE IF file_type \in {<<".">> \o S_wav, <<".">> \o S_wave} /\ file.container = "WAVE"
        THEN [bitrate |-> None, format |-> <<"W","A","V">>]
    ELSE IF file_type = <<".">> \o S_flac /\ file.container = "FLAC"
        THEN [bitrate |-> None, format |-> <<"F","L","A","C">>]
    ELSE IF file_type \in {<<".">> \o S_aif, <<".">> \o S_aiff} /\ file.container = "AIFF"
        THEN [bitrate |-> None, format |-> <<"A","I","F","F">>]
    ELSE IF file_type = <<".">> \o S_m4a /\ file.container = "MP4"
        THEN [bitrate |-> file.bitrate, format |-> <<"M","4","A">>]
    ELSE IF file_type = <<".">> \o S_ogg /\ file.container = "OggVorbis"
        THEN [bitrate |-> file.bitrate, format |-> <<"O","G","G">>]
    ELSE [bitrate |-> None, format |-> <<>>]

\* the None get_audio_metadata returns for a file mutagen cannot read
NoMetadata == [unreadable |-> TRUE]

\* get_audio_metadata(file_path): the record, or None
get_audio_metadata(file) ==
    IF file.container = "none" THEN NoMetadata
    ELSE LET file_type == suffix(file.name)
             format_info == get_format_specific_info(file, file_type)
         IN  [filename |-> file.name,
              file_type |-> file_type,
              file_size_mb |-> file.size,
              sample_rate |-> file.sample_rate,
              bit_depth |-> file.bit_depth,
              channels |-> file.channels,
              bitrate |-> format_info.bitrate,
              format |-> format_info.format]

(***************************************************************************)
(* scan.py: generate_report, the scan loop                                 *)
(***************************************************************************)
\* d[key] += 1 on a defaultdict(int), held in insertion order as <<key, count>>
Increment(d, key) ==
    IF \E i \in DOMAIN d : d[i][1] = key
    THEN [i \in DOMAIN d |-> IF d[i][1] = key THEN <<key, d[i][2] + 1>> ELSE d[i]]
    ELSE Append(d, <<key, 1>>)

InitFs ==
    /\ tree \in {t \in Trees(MaxFiles) : Distinct(t)}
    /\ removed = {}
    /\ report_file = NoFile

InitScan ==
    /\ si = 1
    /\ audio_files = <<>>
    /\ error_files = <<>>
    /\ format_stats = <<>>
    /\ sample_rate_stats = <<>>
    /\ bit_depth_stats = <<>>
    /\ channel_stats = <<>>
    /\ compatibility_stats = [compatible |-> 0, incompatible |-> 0]

InitConvert ==
    /\ parsed_files = <<>>
    /\ incompatible_files = <<>>
    /\ ci = 1
    /\ outcomes = <<>>
    /\ ffmpeg_calls = <<>>
    /\ converted = {}

IdleFn ==
    /\ fpc = "idle"
    /\ metadata = [file_type |-> <<>>]
    /\ verdict = <<>>
    /\ plan = NoPlan

Init ==
    /\ InitFs
    /\ pc = "scan"
    /\ InitScan
    /\ InitConvert
    /\ IdleFn

\* one iteration of the loop over Path(directory_path).rglob('*'), lines 196-216
ScanFile ==
    /\ pc = "scan"
    /\ si <= Len(tree)
    /\ si' = si + 1
    /\ LET file == tree[si]
           record == get_audio_metadata(file)
       IN  IF suffix(file.name) \notin audio_extensions THEN
               UNCHANGED <<audio_files, error_files, format_stats, sample_rate_stats,
                           bit_depth_stats, channel_stats, compatibility_stats>>
           ELSE IF record = NoMetadata THEN
               /\ error_files' = Append(error_files, PathOf(file))
               /\ UNCHANGED <<audio_files, format_stats, sample_rate_stats,
                              bit_depth_stats, channel_stats, compatibility_stats>>
           ELSE
               LET checked == check_compatibility(record)
                   is_compatible == checked[1]
                   issues == checked[2]
               IN  /\ audio_files' = Append(audio_files,
                          Put(Put(record, "is_compatible", is_compatible),
                              "compatibility_issues", issues))
                   /\ format_stats' = Increment(format_stats, record.file_type)
                   /\ sample_rate_stats' =
                          IF Truthy(record.sample_rate)
                          THEN Increment(sample_rate_stats, str_int(record.sample_rate))
                          ELSE sample_rate_stats
                   /\ bit_depth_stats' =
                          IF Truthy(record.bit_depth)
                          THEN Increment(bit_depth_stats, str_int(record.bit_depth))
                          ELSE bit_depth_stats
                   /\ channel_stats' =
                          IF Truthy(record.channels)
                          THEN Increment(channel_stats, str_int(record.channels))
                          ELSE channel_stats
                   /\ compatibility_stats' =
                          IF is_compatible
                          THEN [compatibility_stats EXCEPT !.compatible = @ + 1]
                          ELSE [compatibility_stats EXCEPT !.incompatible = @ + 1]
                   /\ UNCHANGED error_files
    /\ UNCHANGED <<fs_vars, pc, convert_vars, fn_vars>>


(***************************************************************************)
(* scan.py: generate_report, the report text                               *)
(***************************************************************************)
RECURSIVE str_list(_)
\* the elements of str(list) for a list of ints, separated by ", "
str_list(l) ==
    IF l = <<>> THEN <<>>
    ELSE IF Len(l) = 1 THEN str_int(l[1])
    ELSE str_int(l[1]) \o <<",", " ">> \o str_list(Tail(l))

\* the text of an issue of check_compatibility, lines 66-89
IssueText(issue, record) ==
    LET reqs == CDJ_REQUIREMENTS(lstrip_chars(record.file_type, {"."}))
    IN  CASE issue = "format" -> <<"F","o","r","m","a","t"," ","n","o","t"," ","s","u","p","p","o","r","t","e","d"," ","b","y"," ","C","D","J","s">>
          [] issue = "sample_rate" ->
                 <<"S","a","m","p","l","e"," ","r","a","t","e"," ">> \o str_opt_int(record.sample_rate)
                 \o <<" ","H","z"," ","n","o","t"," ","s","u","p","p","o","r","t","e","d","."," ","R","e","q","u","i","r","e","d",":"," ">>
                 \o <<"[">> \o str_list(reqs.sample_rates) \o <<"]">> \o <<" ","H","z">>
          [] issue = "bit_depth" ->
                 <<"B","i","t"," ","d","e","p","t","h"," ">> \o str_opt_int(record.bit_depth)
                 \o <<" ","b","i","t","s"," ","n","o","t"," ","s","u","p","p","o","r","t","e","d","."," ","R","e","q","u","i","r","e","d",":"," ">>
                 \o <<"[">> \o str_list(reqs.bit_depths) \o <<"]">> \o <<" ","b","i","t","s">>
          [] issue = "channels" ->
                 <<"C","h","a","n","n","e","l"," ","c","o","n","f","i","g","u","r","a","t","i","o","n"," ","n","o","t"," ","s","u","p","p","o","r","t","e","d","."," ","R","e","q","u","i","r","e","d",":"," ">>
                 \o <<"[">> \o str_list(reqs.channels) \o <<"]">> \o <<" ","c","h","a","n","n","e","l","s">>
          [] issue = "bitrate_low" ->
                 <<"B","i","t","r","a","t","e"," ">> \o str_float(record.bitrate)
                 \o <<" ","k","b","p","s"," ","t","o","o"," ","l","o","w","."," ","M","i","n","i","m","u","m"," ","r","e","q","u","i","r","e","d",":"," ">>
                 \o str_int(reqs.bitrate[1]) \o <<" ","k","b","p","s">>
          [] issue = "bitrate_high" ->
                 <<"B","i","t","r","a","t","e"," ">> \o str_float(record.bitrate)
                 \o <<" ","k","b","p","s"," ","t","o","o"," ","h","i","g","h","."," ","M","a","x","i","m","u","m"," ","a","l","l","o","w","e","d",":"," ">>
                 \o str_int(reqs.bitrate[2]) \o <<" ","k","b","p","s">>

\* the fixed line prefixes of a file's block
P_File == <<"F","i","l","e",":"," ">>
P_Type == <<" "," ","T","y","p","e",":"," ">>
P_Format == <<" "," ","F","o","r","m","a","t",":"," ">>
P_Size == <<" "," ","S","i","z","e",":"," ">>
P_SampleRate == <<" "," ","S","a","m","p","l","e"," ","R","a","t","e",":"," ">>
P_BitDepth == <<" "," ","B","i","t"," ","D","e","p","t","h",":"," ">>
P_Channels == <<" "," ","C","h","a","n","n","e","l","s",":"," ">>
P_Bitrate == <<" "," ","B","i","t","r","a","t","e",":"," ">>
P_Compatible == <<" "," ","C","D","J"," ","C","o","m","p","a","t","i","b","l","e",":"," ">>

\* the 'Yes' or 'No' of the compatibility line, line 265
CompatibleText(is_compatible) == IF is_compatible THEN <<"Y","e","s">> ELSE <<"N","o">>

\* the entries appended to report for one record, lines 256-270
FileBlock(record) ==
    <<P_File \o record.filename,
      P_Type \o record.file_type,
      P_Format \o (IF record.format # <<>> THEN record.format ELSE <<"N","/","A">>),
      P_Size \o str_float(record.file_size_mb) \o <<" ","M","B">>,
      P_SampleRate \o str_opt_int(record.sample_rate) \o <<" ","H","z">>,
      P_BitDepth \o str_opt_int(record.bit_depth) \o <<" ","b","i","t","s">>,
      P_Channels \o str_opt_int(record.channels)>>
    \o (IF Truthy(record.bitrate)
        THEN <<P_Bitrate \o str_float(record.bitrate) \o <<" ","k","b","p","s">>>> ELSE <<>>)
    \o <<P_Compatible \o CompatibleText(record.is_compatible)>>
    \o (IF record.compatibility_issues # <<>>
        THEN <<<<" "," ","C","o","m","p","a","t","i","b","i","l","i","t","y"," ","I","s","s","u","e","s",":">>>>
             \o [i \in DOMAIN record.compatibility_issues |->
                    <<" "," "," "," ","-"," ">> \o IssueText(record.compatibility_issues[i], record)]
        ELSE <<>>)
    \o << <<>> >>

RECURSIVE FileBlocks(_)
\* the blocks of the loop of lines 254-270, one per record in order; the
\* list is built by halves
FileBlocks(records) ==
    IF records = <<>> THEN <<>>
    ELSE IF Len(records) = 1 THEN FileBlock(records[1])
    ELSE LET half == Len(records) \div 2
         IN  FileBlocks(SubSeq(records, 1, half))
                 \o FileBlocks(SubSeq(records, half + 1, Len(records)))

\* f"{(compatible / total * 100):.1f}", or the ZeroDivisionError of total = 0;
\* for the totals of the model the rate never lies halfway between two tenths
RateText(compatible, total) ==
    IF total = 0 THEN ZeroDivisionError
    ELSE LET tenths == (2000 * compatible + total) \div (2 * total)
         IN  str_int(tenths \div 10) \o <<".">> \o <<Digits[(tenths % 10) + 1]>>

\* the lines "  {key}{unit}{count} files" of a statistics dict
StatLines(d, unit) ==
    [i \in DOMAIN d |-> <<" ", " ">> \o d[i][1] \o unit \o str_int(d[i][2]) \o <<" ","f","i","l","e","s">>]

\* the list report of generate_report, lines 219-276, or ZeroDivisionError
ReportEntries ==
    IF RateText(compatibility_stats.compatible, Len(audio_files)) = ZeroDivisionError
    THEN ZeroDivisionError
    ELSE
        <<<<"=","=","="," ","A","u","d","i","o"," ","F","i","l","e","s"," ","T","e","c","h","n","i","c","a","l"," ","R","e","p","o","r","t"," ","=","=","=","\n">>,
          <<"G","e","n","e","r","a","t","e","d"," ","o","n",":"," ">> \o Now,
          <<"D","i","r","e","c","t","o","r","y"," ","s","c","a","n","n","e","d",":"," ">> \o AUDIO_DIR,
          <<"T","o","t","a","l"," ","a","u","d","i","o"," ","f","i","l","e","s"," ","f","o","u","n","d",":"," ">> \o str_int(Len(audio_files)),
          IF error_files # <<>>
          THEN <<"F","i","l","e","s"," ","w","i","t","h"," ","e","r","r","o","r","s",":"," ">> \o str_int(Len(error_files)) \o <<"\n">>
          ELSE <<"A","l","l"," ","f","i","l","e","s"," ","p","r","o","c","e","s","s","e","d"," ","s","u","c","c","e","s","s","f","u","l","l","y",".","\n">>,
          <<"=","=","="," ","C","D","J"," ","C","o","m","p","a","t","i","b","i","l","i","t","y"," ","S","u","m","m","a","r","y"," ","=","=","=","\n">>,
          <<"C","o","m","p","a","t","i","b","l","e"," ","f","i","l","e","s",":"," ">> \o str_int(compatibility_stats.compatible),
          <<"I","n","c","o","m","p","a","t","i","b","l","e"," ","f","i","l","e","s",":"," ">> \o str_int(compatibility_stats.incompatible),
          <<"C","o","m","p","a","t","i","b","i","l","i","t","y"," ","r","a","t","e",":"," ">>
              \o RateText(compatibility_stats.compatible, Len(audio_files)) \o <<"%","\n">>,
          <<"=","=","="," ","S","u","m","m","a","r","y"," ","S","t","a","t","i","s","t","i","c","s"," ","=","=","=","\n">>,
          <<"F","i","l","e"," ","T","y","p","e","s",":">>>>
        \o StatLines(format_stats, <<":", " ">>)
        \o <<<<"\n","S","a","m","p","l","e"," ","R","a","t","e","s",":">>>>
        \o StatLines(sample_rate_stats, <<" ","H","z",":"," ">>)
        \o <<<<"\n","B","i","t"," ","D","e","p","t","h","s",":">>>>
        \o StatLines(bit_depth_stats, <<" ","b","i","t","s",":"," ">>)
        \o <<<<"\n","C","h","a","n","n","e","l"," ","C","o","n","f","i","g","u","r","a","t","i","o","n","s",":">>>>
        \o StatLines(channel_stats, <<" ","c","h","a","n","n","e","l","s",":"," ">>)
        \o <<<<"\n","=","=","="," ","D","e","t","a","i","l","e","d"," ","F","i","l","e"," ","I","n","f","o","r","m","a","t","i","o","n"," ","=","=","=","\n">>>>
        \o FileBlocks(audio_files)
        \o (IF error_files # <<>>
            THEN <<<<"\n","=","=","="," ","F","i","l","e","s"," ","w","i","t","h"," ","E","r","r","o","r","s"," ","=","=","=","\n">>>>
                 \o [i \in DOMAIN error_files |-> <<"-"," ">> \o error_files[i]]
            ELSE <<>>)

RECURSIVE LinesOf(_)
\* "\n".join(entries).split('\n'): the lines of every entry, in order; the
\* list is built by halves
LinesOf(entries) ==
    IF entries = <<>> THEN <<>>
    ELSE IF Len(entries) = 1 THEN split_lines(entries[1])
    ELSE LET half == Len(entries) \div 2
         IN  LinesOf(SubSeq(entries, 1, half))
                 \o LinesOf(SubSeq(entries, half + 1, Len(entries)))

\* the rest of generate_report and main, lines 218-294: build the report and
\* write it to audio_metadata_report.txt; a ZeroDivisionError ends scan.py
\* before the file is opened
WriteReport ==
    /\ pc = "scan"
    /\ si > Len(tree)
    /\ IF ReportEntries = ZeroDivisionError
       THEN /\ pc' = "scan_crashed"
            /\ UNCHANGED report_file
       ELSE /\ pc' = "scanned"
            /\ report_file' = [exists |-> TRUE, lines |-> LinesOf(ReportEntries)]
    /\ UNCHANGED <<tree, removed, scan_vars, convert_vars, fn_vars>>

\* between the two stages a file may disappear from disk
RemoveFile ==
    /\ pc = "scanned"
    /\ \E i \in DOMAIN tree \ removed : removed' = removed \cup {i}
    /\ UNCHANGED <<tree, report_file, pc, scan_vars, convert_vars, fn_vars>>


(***************************************************************************)
(* convert.py: the report parser of process_directory                      *)
(***************************************************************************)
\* the line prefixes the parser tests, lines 164-193
Q_File == <<"F","i","l","e",":"," ">>
Q_Type == <<" "," ","T","y","p","e",":"," ">>
Q_SampleRate == <<" "," ","S","a","m","p","l","e"," ","R","a","t","e",":"," ">>
Q_BitDepth == <<" "," ","B","i","t"," ","D","e","p","t","h",":"," ">>
Q_Channels == <<" "," ","C","h","a","n","n","e","l","s",":"," ">>
Q_Bitrate == <<" "," ","B","i","t","r","a","t","e",":"," ">>
Q_Compatible == <<" "," ","C","D","J"," ","C","o","m","p","a","t","i","b","l","e",":"," ">>

\* l[0] of a list of words
first(words) == IF words = <<>> THEN IndexError ELSE [value |-> words[1]]

\* the exceptions the parser's try blocks catch
Caught == {"ValueError", "IndexError"}

\* try: v = <expression> / except (ValueError, IndexError): v = None
OrNone(r) == IF Raised(r) /\ r.raised \in Caught THEN [value |-> None] ELSE r

\* int(line[14:].split()[0]), line 173
SampleRateValue_Offset16(line) ==
    LET word == first(split(slice_from(line, 16)))
    IN  IF Raised(word) THEN word ELSE int(word.value)

SampleRateValue(line) ==
    LET word == first(split(slice_from(line, 14)))
    IN  IF Raised(word) THEN word ELSE int(word.value)

\* None if value == 'None' else int(value), value = line[12:].split()[0], lines 178-179
BitDepthValue(line) ==
    LET word == first(split(slice_from(line, 12)))
    IN  IF Raised(word) THEN word
        ELSE IF word.value = S_None THEN [value |-> None]
        ELSE int(word.value)

\* int(line[11:].strip()), line 184
ChannelsValue(line) == int(strip(slice_from(line, 11)))

\* None if value == 'None' else float(value), value = line[10:].split()[0], lines 189-190
BitrateValue(line) ==
    LET word == first(split(slice_from(line, 10)))
    IN  IF Raised(word) THEN word
        ELSE IF word.value = S_None THEN [value |-> None]
        ELSE float(word.value)

\* current_metadata[key] = v for a value that may be an exception
PutValue(p, key, r) ==
    IF Raised(r) THEN r
    ELSE [p EXCEPT !.current_metadata = Put(p.current_metadata, key, r.value)]

\* the body of the loop over report_content.split('\n'), lines 164-194, on the
\* parser state p = [audio_files, current_metadata]; an exception no try block
\* catches is the result
ParseLine(p, line) ==
    IF startswith(line, Q_File) THEN
        [audio_files |-> IF DOMAIN p.current_metadata # {}
                         THEN Append(p.audio_files, p.current_metadata)
                         ELSE p.audio_files,
         current_metadata |-> [filename |-> strip(slice_from(line, 6))]]
    ELSE IF startswith(line, Q_Type) THEN
        PutValue(p, "file_type", [value |-> strip(slice_from(line, 8))])
    ELSE IF startswith(line, Q_SampleRate) THEN
        PutValue(p, "sample_rate", OrNone(SampleRateValue(line)))
    ELSE IF startswith(line, Q_BitDepth) THEN
        PutValue(p, "bit_depth", OrNone(BitDepthValue(line)))
    ELSE IF startswith(line, Q_Channels) THEN
        PutValue(p, "channels", OrNone(ChannelsValue(line)))
    ELSE IF startswith(line, Q_Bitrate) THEN
        PutValue(p, "bitrate", OrNone(BitrateValue(line)))
    ELSE IF startswith(line, Q_Compatible) THEN
        PutValue(p, "is_compatible", [value |-> strip(slice_from(line, 17)) = <<"Y","e","s">>])
    ELSE p

RECURSIVE ParseLines(_, _)
\* the loop "for line in lines", lines 164-192, from parser state p: every
\* line in order, the first half of the list before the second
ParseLines(p, lines) ==
    IF lines = <<>> \/ Raised(p) THEN p
    ELSE IF Len(lines) = 1 THEN ParseLine(p, lines[1])
    ELSE LET half == Len(lines) \div 2
         IN  ParseLines(ParseLines(p, SubSeq(lines, 1, half)),
                        SubSeq(lines, half + 1, Len(lines)))

\* lines 159-197: audio_files as parsed from the lines of the report, or the
\* exception that ended the loop
ParseReportLines(lines) ==
    LET p == ParseLines([audio_files |-> <<>>, current_metadata |-> <<>>], lines)
    IN  IF Raised(p) THEN p
        ELSE [audio_files |-> IF DOMAIN p.current_metadata # {}
                              THEN Append(p.audio_files, p.current_metadata)
                              ELSE p.audio_files]

(***************************************************************************)
(* convert.py: process_directory                                           *)
(***************************************************************************)
\* check_ffmpeg(), lines 142-148: the tool answers or not; without it the
\* stage returns
CheckFfmpeg ==
    /\ pc \in {"scan", "scan_crashed", "scanned"}
    /\ pc = "scan" => si = 1
    /\ \E available \in BOOLEAN :
           pc' = IF available THEN "ffmpeg_ok" ELSE "no_ffmpeg"
    /\ UNCHANGED <<fs_vars, scan_vars, convert_vars, fn_vars>>

\* lines 150-156: open audio_metadata_report.txt, or return when it is missing
ReadReport ==
    /\ pc = "ffmpeg_ok"
    /\ pc' = IF report_file.exists THEN "read" ELSE "no_report"
    /\ UNCHANGED <<fs_vars, scan_vars, convert_vars, fn_vars>>

\* lines 158-197: parse the report
ParseReport ==
    /\ pc = "read"
    /\ LET result == ParseReportLines(report_file.lines)
       IN  IF Raised(result)
           THEN /\ pc' = "convert_crashed"
                /\ UNCHANGED parsed_files
           ELSE /\ pc' = "parsed"
                /\ parsed_files' = result.audio_files
    /\ UNCHANGED <<fs_vars, scan_vars, incompatible_files, ci, outcomes, ffmpeg_calls,
                   converted, fn_vars>>

\* f.get('is_compatible', True)
IsCompatible(f) == IF Has(f, "is_compatible") THEN f.is_compatible ELSE TRUE

\* lines 199-206: select the records flagged incompatible
SelectIncompatible ==
    /\ pc = "parsed"
    /\ incompatible_files' = SelectSeq(parsed_files, LAMBDA f : ~IsCompatible(f))
    /\ pc' = IF incompatible_files' = <<>> THEN "convert_done" ELSE "converting"
    /\ UNCHANGED <<fs_vars, scan_vars, parsed_files, ci, outcomes, ffmpeg_calls,
                   converted, fn_vars>>

\* (Path(directory_path) / filename).exists(), line 210
InputExists(filename) ==
    \E i \in DOMAIN tree \ removed : tree[i].dir = <<>> /\ tree[i].name = filename

\* the next position of the loop over incompatible_files
AfterRecord == IF ci = Len(incompatible_files) THEN "convert_done" ELSE "converting"

\* one iteration of the loop over incompatible_files, lines 208-232:
\* a missing input is skipped; an exception of the planner is caught nowhere
\* and ends the stage; convert_file runs ffmpeg once and reports its exit code,
\* or the exception subprocess.run raised, as a failure
ConvertFile ==
    /\ pc = "converting"
    /\ ci <= Len(incompatible_files)
    /\ LET record == incompatible_files[ci]
           planned == get_conversion_params(record)
       IN  IF ~Has(record, "filename") THEN
               /\ pc' = "convert_crashed"
               /\ UNCHANGED <<ci, outcomes, ffmpeg_calls, converted>>
           ELSE IF ~InputExists(record.filename) THEN
               /\ outcomes' = Append(outcomes, "missing")
               /\ ci' = ci + 1
               /\ pc' = AfterRecord
               /\ UNCHANGED <<ffmpeg_calls, converted>>
           ELSE IF planned = KeyError THEN
               /\ pc' = "convert_crashed"
               /\ UNCHANGED <<ci, outcomes, ffmpeg_calls, converted>>
           ELSE
               \E result \in {"ok", "nonzero", "raised"} :
                   LET output_filename == stem(record.filename) \o <<".">> \o planned.target_format
                   IN  /\ ffmpeg_calls' = Append(ffmpeg_calls,
                              [input |-> record.filename, params |-> planned.params,
                               output |-> output_filename])
                       /\ converted' = IF result = "ok"
                                       THEN converted \cup {output_filename}
                                       ELSE converted
                       /\ outcomes' = Append(outcomes, result)
                       /\ ci' = ci + 1
                       /\ pc' = AfterRecord
    /\ UNCHANGED <<fs_vars, scan_vars, parsed_files, incompatible_files, fn_vars>>

Next ==
    \/ ScanFile
    \/ WriteReport
    \/ RemoveFile
    \/ CheckFfmpeg
    \/ ReadReport
    \/ ParseReport
    \/ SelectIncompatible
    \/ ConvertFile

Spec == Init /\ [][Next]_vars


(***************************************************************************)
(* The values the metadata extractor can return (get_audio_metadata)       *)
(***************************************************************************)
SampleRates == {None, 22050, 44100, 48000, 96000}
BitDepths == {None, 8, 16, 24, 32}
ChannelCounts == {None, 1, 2, 6}
\* get_format_specific_info: a bitrate (kbps rounded to two decimals, here in
\* hundredths) for mp3, m4a and ogg, None for the other formats and for a
\* container that does not match the extension
BitratesOf(file_type) ==
    IF file_type \in {<<".">> \o S_mp3, <<".">> \o S_m4a, <<".">> \o S_ogg}
    THEN {None, 0, 1600, 3150, 3200, 12800, 25600, 32000, 40000}
    ELSE {None}

\* the technical fields of the records get_audio_metadata can build
TechnicalRecords ==
    UNION {
        [file_type : {t}, sample_rate : SampleRates, bit_depth : BitDepths,
         channels : ChannelCounts, bitrate : BitratesOf(t)] : t \in audio_extensions}

(***************************************************************************)
(* The evaluator and the planner as functions of one record                *)
(***************************************************************************)
\* the two stages are not run
IdlePipeline ==
    /\ tree = <<>>
    /\ removed = {}
    /\ report_file = NoFile
    /\ pc = "idle"
    /\ InitScan
    /\ InitConvert

InitFn ==
    /\ IdlePipeline
    /\ fpc = "record"
    /\ metadata \in TechnicalRecords
    /\ verdict = <<>>
    /\ plan = NoPlan

\* scan.py line 201: is_compatible, issues = check_compatibility(metadata)
Evaluate ==
    /\ fpc = "record"
    /\ verdict' = check_compatibility(metadata)
    /\ fpc' = "evaluated"
    /\ UNCHANGED <<metadata, plan, fs_vars, pc, scan_vars, convert_vars>>

\* convert.py lines 200, 215: the planner runs on the records flagged
\* incompatible
Plan ==
    /\ fpc = "evaluated"
    /\ ~verdict[1]
    /\ plan' = get_conversion_params(metadata)
    /\ fpc' = "planned"
    /\ UNCHANGED <<metadata, verdict, fs_vars, pc, scan_vars, convert_vars>>

NextFn == Evaluate \/ Plan

SpecFn == InitFn /\ [][NextFn]_vars

(***************************************************************************)
(* Claims about the evaluator and the planner                              *)
(***************************************************************************)
Evaluated == fpc \in {"evaluated", "planned"}
Planned == fpc = "planned" /\ plan # KeyError
FileType == lstrip_chars(metadata.file_type, {"."})
Issues == verdict[2]
HasBitrateIssue(issues) == InList("bitrate_low", issues) \/ InList("bitrate_high", issues)

\* the record's sample rate, bit depth (where constrained) and channels are
\* within the rule table's sets for format k
NonBitrateFieldsAllowed(m, k) ==
    /\ m.sample_rate \in {CDJ_REQUIREMENTS(k).sample_rates[i] : i \in DOMAIN CDJ_REQUIREMENTS(k).sample_rates}
    /\ CDJ_REQUIREMENTS(k).bit_depths # <<>> =>
          m.bit_depth \in {CDJ_REQUIREMENTS(k).bit_depths[i] : i \in DOMAIN CDJ_REQUIREMENTS(k).bit_depths}
    /\ m.channels \in {CDJ_REQUIREMENTS(k).channels[i] : i \in DOMAIN CDJ_REQUIREMENTS(k).channels}

\* the record's bitrate is a number within format k's range, where k has one
BitrateAllowed(m, k) ==
    CDJ_REQUIREMENTS(k).bitrate # <<>> =>
        /\ m.bitrate # None
        /\ m.bitrate >= Kbps(CDJ_REQUIREMENTS(k).bitrate[1])
        /\ CDJ_REQUIREMENTS(k).bitrate[2] # None => m.bitrate <= Kbps(CDJ_REQUIREMENTS(k).bitrate[2])

\* the record a plan is predicted to produce: file type := target format,
\* '-ar 44100' sets the sample rate, '-ac 2' the channels, '-acodec pcm_s24le'
\* the bit depth to 24, '-b:a Nk' the bitrate to N; other fields unchanged
ApplyPlan(m, p) ==
    [file_type |-> <<".">> \o p.target_format,
     sample_rate |-> IF InList("-ar", p.params) THEN 44100 ELSE m.sample_rate,
     bit_depth |-> IF InList("pcm_s24le", p.params) THEN 24 ELSE m.bit_depth,
     channels |-> IF InList("-ac", p.params) THEN 2 ELSE m.channels,
     bitrate |-> IF InList("320k", p.params) THEN Kbps(320)
                 ELSE IF InList("256k", p.params) THEN Kbps(256)
                 ELSE m.bitrate]

\* C3: planner sufficiency. For every record the evaluator marks incompatible,
\* the record predicted by applying the planner's parameters no longer has any
\* of the issues the evaluator had flagged on the original record.
C3_PlannerSufficiency ==
    Planned =>
        \A i \in DOMAIN Issues :
            ~InList(Issues[i], check_compatibility(ApplyPlan(metadata, plan))[2])

\* C4: planner minimality. For a record of a format of the rule table, '-b:a'
\* is emitted only for an mp3 or m4a record whose bitrate is below the format's
\* minimum (32, 256), '-ar' only when the sample rate is not in the format's
\* allowed set, '-ac' only when the channel count is not 2; and the 22050 Hz,
\* 1-channel, 128 kbps mp3 record is planned as mp3 with '-ar 44100 -ac 2' only.
C4_PlannerMinimality ==
    (Planned /\ FileType \in CDJ_KEYS) =>
        /\ InList("-b:a", plan.params) =>
              /\ CDJ_REQUIREMENTS(FileType).bitrate # <<>>
              /\ metadata.bitrate # None
              /\ metadata.bitrate < Kbps(CDJ_REQUIREMENTS(FileType).bitrate[1])
        /\ InList("-ar", plan.params) =>
              ~InList(metadata.sample_rate, CDJ_REQUIREMENTS(FileType).sample_rates)
        /\ InList("-ac", plan.params) => metadata.channels # 2
        /\ (FileType = S_mp3 /\ metadata.sample_rate = 22050 /\ metadata.channels = 1
              /\ metadata.bitrate = Kbps(128)) =>
              plan = [target_format |-> S_mp3, params |-> <<"-ar", "44100", "-ac", "2">>]

\* C7: bitrate check. For an mp3 or m4a record whose other fields are allowed
\* and whose bitrate is a number: below the minimum the issues are exactly the
\* low-bitrate issue, above the maximum (mp3) exactly the high-bitrate issue,
\* and no record has both issues.
C7_BitrateCheck ==
    (Evaluated /\ FileType \in {S_mp3, S_m4a}) =>
        /\ ~(InList("bitrate_low", Issues) /\ InList("bitrate_high", Issues))
        /\ (NonBitrateFieldsAllowed(metadata, FileType) /\ metadata.bitrate # None) =>
              /\ metadata.bitrate < Kbps(CDJ_REQUIREMENTS(FileType).bitrate[1]) =>
                    verdict = <<FALSE, <<"bitrate_low">>>>
              /\ (CDJ_REQUIREMENTS(FileType).bitrate[2] # None
                    /\ metadata.bitrate > Kbps(CDJ_REQUIREMENTS(FileType).bitrate[2])) =>
                    verdict = <<FALSE, <<"bitrate_high">>>>

\* C8: a record of a format of the rule table with every field within the
\* format's allowed sets and range is compatible, with no issue.
C8_WithinRulesIsCompatible ==
    (Evaluated /\ FileType \in CDJ_KEYS
        /\ NonBitrateFieldsAllowed(metadata, FileType) /\ BitrateAllowed(metadata, FileType)) =>
        verdict = <<TRUE, <<>>>>

\* C8 witness: the 16-bit / 44100 Hz / 2-channel wav record has been evaluated,
\* and so has an mp3 record at the 320 kbps maximum
C8_Witness ==
    /\ Evaluated
    /\ \/ (FileType = S_wav /\ metadata.sample_rate = 44100 /\ metadata.bit_depth = 16
             /\ metadata.channels = 2)
       \/ (FileType = S_mp3 /\ metadata.sample_rate = 44100 /\ metadata.channels = 2
             /\ metadata.bitrate = Kbps(320))
    /\ verdict[1]

\* C9 as claimed: for a record of a supported format, an unknown sample rate,
\* bit depth (wav, aiff, flac), channel count or bitrate (mp3, m4a) makes the
\* record incompatible with an issue for that field; bit depth for mp3/m4a and
\* bitrate for wav/aiff/flac never produce an issue.
C9_UnknownIsNonMatch ==
    (Evaluated /\ FileType \in CDJ_KEYS) =>
        /\ metadata.sample_rate = None => (~verdict[1] /\ InList("sample_rate", Issues))
        /\ (metadata.bit_depth = None /\ CDJ_REQUIREMENTS(FileType).bit_depths # <<>>) =>
              (~verdict[1] /\ InList("bit_depth", Issues))
        /\ metadata.channels = None => (~verdict[1] /\ InList("channels", Issues))
        /\ (metadata.bitrate = None /\ CDJ_REQUIREMENTS(FileType).bitrate # <<>>) =>
              (~verdict[1] /\ HasBitrateIssue(Issues))
        /\ CDJ_REQUIREMENTS(FileType).bit_depths = <<>> => ~InList("bit_depth", Issues)
        /\ CDJ_REQUIREMENTS(FileType).bitrate = <<>> => ~HasBitrateIssue(Issues)

\* C9 amended: as claimed for sample rate, bit depth and channels; an unknown
\* bitrate produces no issue (the bitrate check is skipped for it); bit depth
\* for mp3/m4a and bitrate for wav/aiff/flac never produce an issue.
C9_UnknownIsNonMatchExceptBitrate ==
    (Evaluated /\ FileType \in CDJ_KEYS) =>
        /\ metadata.sample_rate = None => (~verdict[1] /\ InList("sample_rate", Issues))
        /\ (metadata.bit_depth = None /\ CDJ_REQUIREMENTS(FileType).bit_depths # <<>>) =>
              (~verdict[1] /\ InList("bit_depth", Issues))
        /\ metadata.channels = None => (~verdict[1] /\ InList("channels", Issues))
        /\ metadata.bitrate = None => ~HasBitrateIssue(Issues)
        /\ CDJ_REQUIREMENTS(FileType).bit_depths = <<>> => ~InList("bit_depth", Issues)
        /\ CDJ_REQUIREMENTS(FileType).bitrate = <<>> => ~HasBitrateIssue(Issues)

\* C9 witness: an mp3 record whose sample rate and bitrate are both unknown has
\* been evaluated: it has the sample-rate issue and no bitrate issue
C9_Witness ==
    /\ Evaluated
    /\ FileType = S_mp3
    /\ metadata.sample_rate = None
    /\ metadata.bitrate = None
    /\ metadata.channels = 2
    /\ verdict = <<FALSE, <<"sample_rate">>>>



(***************************************************************************)
(* The parser on an arbitrary report text                                  *)
(***************************************************************************)
\* lines a report text may hold: well-formed lines of a block, lines whose
\* value is None, is missing or is not a number, and a blank line
ReportLineSet == {
    <<"F","i","l","e",":"," ","a",".","m","p","3">>,
    <<" "," ","T","y","p","e",":"," ",".","m","p","3">>,
    <<" "," ","S","a","m","p","l","e"," ","R","a","t","e",":"," ","4","4","1","0","0"," ","H","z">>,
    <<" "," ","S","a","m","p","l","e"," ","R","a","t","e",":"," ","N","o","n","e"," ","H","z">>,
    <<" "," ","S","a","m","p","l","e"," ","R","a","t","e",":"," ">>,
    <<" "," ","B","i","t"," ","D","e","p","t","h",":"," ","1","6"," ","b","i","t","s">>,
    <<" "," ","B","i","t"," ","D","e","p","t","h",":"," ","N","o","n","e"," ","b","i","t","s">>,
    <<" "," ","C","h","a","n","n","e","l","s",":"," ","2">>,
    <<" "," ","C","h","a","n","n","e","l","s",":"," ","t","w","o">>,
    <<" "," ","B","i","t","r","a","t","e",":"," ","1","2","8",".","5"," ","k","b","p","s">>,
    <<" "," ","B","i","t","r","a","t","e",":"," ","h","i","g","h">>,
    <<" "," ","C","D","J"," ","C","o","m","p","a","t","i","b","l","e",":"," ","N","o">>,
    <<" "," ","C","D","J"," ","C","o","m","p","a","t","i","b","l","e",":"," ","Y","e","s">>,
    <<>>
}

\* the sequences of at most n lines
RECURSIVE LineSeqs(_)
LineSeqs(n) ==
    IF n = 0 THEN {<<>>}
    ELSE LET shorter == LineSeqs(n - 1)
         IN  shorter \cup
             {Append(t, l) : t \in {u \in shorter : Len(u) = n - 1}, l \in ReportLineSet}

\* convert.py has read a report text of any content
InitParse ==
    /\ tree = <<>>
    /\ removed = {}
    /\ report_file \in {[exists |-> TRUE, lines |-> l] : l \in LineSeqs(MaxLines)}
    /\ pc = "read"
    /\ InitScan
    /\ InitConvert
    /\ IdleFn

NextParse == ParseReport

SpecParse == InitParse /\ [][NextParse]_vars

(***************************************************************************)
(* Claims about the report, the parser and the convert stage               *)
(***************************************************************************)
\* the parsed record r has the fields written for the record w
SameFields(w, r) ==
    /\ \A k \in {"filename", "file_type", "sample_rate", "bit_depth", "channels",
                 "is_compatible"} : Has(r, k) /\ r[k] = w[k]
    /\ Truthy(w.bitrate) => (Has(r, "bitrate") /\ r.bitrate = w.bitrate)

\* C1: round trip. Parsing the report written from audio_files yields one
\* record per written file, in the same order, with the same filename, type,
\* sample rate, bit depth, channels, bitrate (when written) and flag.
C1_RoundTrip ==
    pc = "parsed" =>
        /\ Len(parsed_files) = Len(audio_files)
        /\ \A i \in DOMAIN audio_files : SameFields(audio_files[i], parsed_files[i])

\* the files of tree the scan reads into audio_files, and the position of
\* file j's record in audio_files
Scanned(j) == suffix(tree[j].name) \in audio_extensions /\ tree[j].container # "none"
Rank(j) == Cardinality({k \in 1..j : Scanned(k)})
FlaggedIncompatible(j) == Scanned(j) /\ ~audio_files[Rank(j)].is_compatible
\* the number of transcoder invocations whose input is file j of tree
Invocations(j) ==
    IF tree[j].dir = <<>>
    THEN Cardinality({k \in DOMAIN ffmpeg_calls : ffmpeg_calls[k].input = tree[j].name})
    ELSE 0

\* C2: with the tool available, the report present and the root unchanged, a
\* completed convert stage has invoked the transcoder exactly once for every
\* file the scan flagged incompatible, at any depth under the root, and never
\* for a file flagged compatible.
C2_EveryIncompatibleTranscodedOnce ==
    (pc = "convert_done" /\ removed = {}) =>
        \A j \in DOMAIN tree :
            Scanned(j) => Invocations(j) = (IF FlaggedIncompatible(j) THEN 1 ELSE 0)

\* C5: per-file failures do not stop the run. When the convert stage has
\* ended, after every record whose input was missing or whose transcode
\* failed all later records of the list have been processed too, and the
\* transcoder was invoked once per record whose input existed and never for
\* a missing input.
C5_FailuresDoNotStopRun ==
    pc \in {"convert_done", "convert_crashed"} =>
        /\ \A k \in DOMAIN outcomes :
               outcomes[k] \in {"missing", "nonzero", "raised"} =>
                   \A l \in (k + 1)..Len(incompatible_files) : l \in DOMAIN outcomes
        /\ Len(ffmpeg_calls) = Cardinality({k \in DOMAIN outcomes : outcomes[k] # "missing"})

\* a parsed record's own technical fields; a field the record lacks is unknown
OwnFields(r) ==
    [file_type |-> r.file_type,
     sample_rate |-> IF Has(r, "sample_rate") THEN r.sample_rate ELSE None,
     bit_depth |-> IF Has(r, "bit_depth") THEN r.bit_depth ELSE None,
     channels |-> IF Has(r, "channels") THEN r.channels ELSE None,
     bitrate |-> IF Has(r, "bitrate") THEN r.bitrate ELSE None]

\* C6: flag consistency. Every record generate_report holds and writes, and
\* every record the parser re-hydrates from the report, carries the flag that
\* check_compatibility computes from the record's own fields.
C6_FlagConsistency ==
    /\ \A i \in DOMAIN audio_files :
           audio_files[i].is_compatible = check_compatibility(audio_files[i])[1]
    /\ \A i \in DOMAIN parsed_files :
           parsed_files[i].is_compatible = check_compatibility(OwnFields(parsed_files[i]))[1]

\* C6 witness: a report with a compatible record and with an incompatible mp3
\* record written without a bitrate line has been parsed
C6_Witness ==
    /\ pc = "parsed"
    /\ \E i, j \in DOMAIN parsed_files :
           /\ parsed_files[i].is_compatible
           /\ ~parsed_files[j].is_compatible
           /\ parsed_files[j].file_type = <<".">> \o S_mp3
           /\ ~Has(parsed_files[j], "bitrate")

\* the numbers the lines of ReportLineSet carry for each field
NumbersOnLines(key) ==
    CASE key = "sample_rate" -> {44100}
      [] key = "bit_depth" -> {16}
      [] key = "channels" -> {2}
      [] key = "bitrate" -> {12850}

\* C10: parser tolerance. On every sequence of lines the parser ends without
\* an exception, and every record it emits holds each of sample rate, bit
\* depth, channels and bitrate, as the number of a line of that field or as
\* None.
C10_ParserTolerance ==
    /\ pc # "convert_crashed"
    /\ pc = "parsed" =>
           \A i \in DOMAIN parsed_files :
               \A key \in {"sample_rate", "bit_depth", "channels", "bitrate"} :
                   /\ Has(parsed_files[i], key)
                   /\ parsed_files[i][key] \in NumbersOnLines(key) \cup {None}

\* C11: for every report written by generate_report, with the tool available,
\* the convert stage runs to completion: get_conversion_params returns a
\* target format and a parameter list for every incompatible record the
\* parser emitted, also for an mp3 or m4a record without a "  Bitrate:" line,
\* no record ends the run, and a finished stage has processed every record.
C11_ConvertRunsToCompletion ==
    /\ pc # "convert_crashed"
    /\ (pc = "converting" /\ ci <= Len(incompatible_files)) =>
           get_conversion_params(incompatible_files[ci]) # KeyError
    /\ pc = "convert_done" => Len(outcomes) = Len(incompatible_files)

\* C12: generate_report returns a report text for every scan outcome, also
\* when no audio file was readable: the compatibility-rate line is produced
\* without error and scan.py writes the report.
C12_ReportForEveryScan ==
    /\ pc # "scan_crashed"
    /\ (pc = "scan" /\ si > Len(tree)) => ReportEntries # ZeroDivisionError

====
